---- MODULE Spec2Model ----
(***************************************************************************)
(* Base64-to-PDF converter (script.js): the DOM state the handlers read    *)
(* and write, the object-URL registry of the browser, and the handlers of  *)
(* the file input, the clear button, the copy button and the convert       *)
(* button.                                                                 *)
(*                                                                         *)
(* Spec runs the file, clear and convert handlers together; SpecCopy the   *)
(* copy button and its timers, which share only the text area with the     *)
(* others; SpecExtract and SpecFilename run the convert handler once on    *)
(* each of a set of texts and of file names.                               *)
(*                                                                         *)
(* Text is a sequence of one-character strings, so that trimming, the      *)
(* regular expressions, JSON.parse, atob and btoa are computed character   *)
(* by character as the browser computes them.                              *)
(***************************************************************************)
EXTENDS Integers, Sequences, FiniteSets, TLC

\* ------------------------------------------------------------------ text

\* The Base64 alphabet in value order (RFC 4648, used by atob and btoa).
B64Chars ==
    <<"A", "B", "C", "D", "E", "F", "G", "H", "I", "J", "K", "L", "M", "N", "O", "P",
      "Q", "R", "S", "T", "U", "V", "W", "X", "Y", "Z", "a", "b", "c", "d", "e", "f",
      "g", "h", "i", "j", "k", "l", "m", "n", "o", "p", "q", "r", "s", "t", "u", "v",
      "w", "x", "y", "z", "0", "1", "2", "3", "4", "5", "6", "7", "8", "9", "+", "/">>

\* The padding character.
Pad == "="

\* The 6-bit value of an alphabet character.
B64Value(c) == (CHOOSE i \in 1..Len(B64Chars) : B64Chars[i] = c) - 1

AlphabetSet == {B64Chars[i] : i \in 1..Len(B64Chars)}

InAlphabet(c) == c \in AlphabetSet

\* The character class [A-Za-z0-9+/=] of the two regular expressions.
InB64Class(c) == InAlphabet(c) \/ c = Pad

\* White space as String.prototype.trim, the class \s and atob see it
\* (the ASCII white space the inputs of this model use).
IsSpace(c) == c \in {" ", "\n", "\t", "\r"}

\* s[a..b], empty when a > b.
Slice(s, a, b) == IF a > b THEN <<>> ELSE SubSeq(s, a, b)

\* c repeated n times.
Rep(c, n) == [i \in 1..n |-> c]

\* String.prototype.trim.
Trim(s) ==
    LET keep == {i \in 1..Len(s) : ~IsSpace(s[i])}
    IN  IF keep = {} THEN <<>>
        ELSE Slice(s, CHOOSE i \in keep : \A j \in keep : i <= j,
                      CHOOSE i \in keep : \A j \in keep : j <= i)

\* String.prototype.startsWith / endsWith.
StartsWith(s, p) == Len(s) >= Len(p) /\ SubSeq(s, 1, Len(p)) = p

EndsWith(s, p) == Len(s) >= Len(p) /\ SubSeq(s, Len(s) - Len(p) + 1, Len(s)) = p


\* ------------------------------------------------------------ atob, btoa

\* A byte string: a sequence of numbers 0..255 (a binary string of atob, a
\* Uint8Array).  atob and btoa fail or succeed: [ok, bytes] and [ok, text].

\* atob: the forgiving Base64 decoding of the HTML standard.  White space is
\* removed; when the length is a multiple of 4, one or two trailing "="
\* are removed; a length of 1 modulo 4 or a character outside the alphabet
\* fails; the bits left over after the last whole byte are dropped.
Atob(s) ==
    LET d0 == SelectSeq(s, LAMBDA c : ~IsSpace(c))
        n0 == Len(d0)
        d1 == IF n0 % 4 = 0 /\ n0 >= 2 /\ d0[n0] = Pad /\ d0[n0 - 1] = Pad
                  THEN Slice(d0, 1, n0 - 2)
              ELSE IF n0 % 4 = 0 /\ n0 >= 1 /\ d0[n0] = Pad
                  THEN Slice(d0, 1, n0 - 1)
              ELSE d0
        n  == Len(d1)
        v(i) == IF i <= n THEN B64Value(d1[i]) ELSE 0
        byte(k) ==
            LET g == 4 * (k \div 3)
            IN  CASE k % 3 = 0 -> v(g + 1) * 4 + (v(g + 2) \div 16)
                  [] k % 3 = 1 -> (v(g + 2) % 16) * 16 + (v(g + 3) \div 4)
                  [] OTHER     -> (v(g + 3) % 4) * 64 + v(g + 4)
    IN  IF n % 4 = 1 \/ \E i \in 1..n : ~InAlphabet(d1[i])
            THEN [ok |-> FALSE, bytes |-> <<>>]
            ELSE [ok |-> TRUE, bytes |-> [k \in 1..((n * 6) \div 8) |-> byte(k - 1)]]

\* btoa: the Base64 encoding with padding.
Btoa(bytes) ==
    LET n == Len(bytes)
        b(i) == IF i <= n THEN bytes[i] ELSE 0
        ch(j) ==
            LET g    == 3 * (j \div 4)
                have == IF n - g >= 3 THEN 3 ELSE n - g
            IN  CASE j % 4 = 0 -> B64Chars[(b(g + 1) \div 4) + 1]
                  [] j % 4 = 1 -> B64Chars[(b(g + 1) % 4) * 16 + (b(g + 2) \div 16) + 1]
                  [] j % 4 = 2 -> IF have < 2 THEN Pad
                                  ELSE B64Chars[(b(g + 2) % 16) * 4 + (b(g + 3) \div 64) + 1]
                  [] OTHER     -> IF have < 3 THEN Pad
                                  ELSE B64Chars[(b(g + 3) % 64) + 1]
    IN  [j \in 1..(4 * ((n + 2) \div 3)) |-> ch(j - 1)]

\* arrayBufferToBase64: the bytes, one character each, through btoa.
arrayBufferToBase64(buffer) == Btoa(buffer)

\* ------------------------------------------------------------ JSON.parse

\* A parsed JSON value: its type, the text of a string, the members of an
\* object in source order (array elements are parsed and not kept: no
\* handler reads them).
JVal(t, s, fields) == [t |-> t, s |-> s, fields |-> fields]

JFail == [ok |-> FALSE, v |-> JVal("none", <<>>, <<>>), next |-> 0]

JOk(v, next) == [ok |-> TRUE, v |-> v, next |-> next]

IsDigit(c) == c \in {"0", "1", "2", "3", "4", "5", "6", "7", "8", "9"}

\* The first position from i on that holds no JSON white space.
SkipWs(s, i) ==
    LET non == {j \in i..Len(s) : ~IsSpace(s[j])}
    IN  IF non = {} THEN Len(s) + 1 ELSE CHOOSE j \in non : \A k \in non : j <= k

\* The first position from i on that holds no digit.
DigitsEnd(s, i) ==
    LET non == {j \in i..Len(s) : ~IsDigit(s[j])}
    IN  IF non = {} THEN Len(s) + 1 ELSE CHOOSE j \in non : \A k \in non : j <= k

At(s, i) == IF i >= 1 /\ i <= Len(s) THEN s[i] ELSE "EOF"

\* The character an escape sequence \c stands for ("none": not an escape
\* this model reads; \b, \f and \uXXXX are outside the inputs).
Unescape(c) ==
    CASE c = "\"" -> "\""
      [] c = "\\" -> "\\"
      [] c = "/"  -> "/"
      [] c = "n"  -> "\n"
      [] c = "t"  -> "\t"
      [] c = "r"  -> "\r"
      [] OTHER    -> "none"

\* A JSON number, -? int frac? exp?, read part by part: each part gives the
\* position after it, or 0 when the text is no number.
AfterInt(s, i) ==
    IF At(s, i) = "0" THEN i + 1
    ELSE IF IsDigit(At(s, i)) THEN DigitsEnd(s, i)
    ELSE 0

AfterFrac(s, j) ==
    IF j = 0 THEN 0
    ELSE IF At(s, j) # "." THEN j
    ELSE IF IsDigit(At(s, j + 1)) THEN DigitsEnd(s, j + 1)
    ELSE 0

AfterExpDigits(s, j) == IF IsDigit(At(s, j)) THEN DigitsEnd(s, j) ELSE 0

AfterExp(s, j) ==
    IF j = 0 THEN 0
    ELSE IF At(s, j) \notin {"e", "E"} THEN j
    ELSE AfterExpDigits(s, IF At(s, j + 1) \in {"+", "-"} THEN j + 2 ELSE j + 1)

NumberAt(j) == IF j = 0 THEN JFail ELSE JOk(JVal("number", <<>>, <<>>), j)

ParseNumber(s, i) ==
    NumberAt(AfterExp(s, AfterFrac(s, AfterInt(s, IF At(s, i) = "-" THEN i + 1 ELSE i))))

ParseLiteral(s, i, lit, t) ==
    IF i + Len(lit) - 1 <= Len(s) /\ SubSeq(s, i, i + Len(lit) - 1) = lit
        THEN JOk(JVal(t, <<>>, <<>>), i + Len(lit))
        ELSE JFail

\* The backslashes that stand in a row right before position j, from
\* position i on.
BackslashesBefore(s, i, j) ==
    LET others == {k \in i..(j - 1) : s[k] # "\\"}
    IN  IF others = {} THEN j - i
        ELSE j - 1 - (CHOOSE k \in others : \A m \in others : m <= k)

\* In a string body that starts at i: position k opens an escape sequence
\* (a backslash after an even number of backslashes), or is the character
\* of one (any character after an odd number).
OpensEscape(s, i, k) == s[k] = "\\" /\ BackslashesBefore(s, i, k) % 2 = 0

IsEscaped(s, i, k) == BackslashesBefore(s, i, k) % 2 = 1

\* The position of the quote that closes the string body starting at i: the
\* first quote that is not escaped (0 when there is none).
ClosingQuote(s, i) ==
    LET qs == {j \in i..Len(s) : s[j] = "\"" /\ ~IsEscaped(s, i, j)}
    IN  IF qs = {} THEN 0 ELSE CHOOSE j \in qs : \A m \in qs : j <= m

\* The text of the string body s[i..e-1]: every escape sequence replaced by
\* its character.
Unescaped(s, i, e) ==
    SelectSeq([n \in 1..(e - i) |->
                  IF OpensEscape(s, i, i + n - 1) THEN "skip"
                  ELSE IF IsEscaped(s, i, i + n - 1) THEN Unescape(s[i + n - 1])
                  ELSE s[i + n - 1]],
              LAMBDA c : c # "skip")

\* The string body s[i..e-1] closed by the quote at e (e = 0: not closed).  A
\* raw control character or an unknown escape sequence is a SyntaxError.
StringBody(s, i, e) ==
    IF e = 0 THEN JFail
    ELSE IF \E k \in i..(e - 1) :
                \/ (~IsEscaped(s, i, k) /\ s[k] \in {"\n", "\t", "\r"})
                \/ (IsEscaped(s, i, k) /\ Unescape(s[k]) = "none")
        THEN JFail
    ELSE JOk(JVal("string", Unescaped(s, i, e), <<>>), e + 1)

\* The rest of a string literal, from the position after its opening quote.
ParseStringBody(s, i) == StringBody(s, i, ClosingQuote(s, i))

RECURSIVE ParseValue(_, _)
RECURSIVE ParseMembers(_, _, _)
RECURSIVE MemberValue(_, _, _)
RECURSIVE MemberNext(_, _, _, _)
RECURSIVE ParseElements(_, _)
RECURSIVE ElementNext(_, _)

\* The members of an object, from the position i of a key: the key ...
ParseMembers(s, i, acc) ==
    IF At(s, i) # "\"" THEN JFail
    ELSE MemberValue(s, ParseStringBody(s, i + 1), acc)

\* ... the colon after the key k and the value ...
MemberValue(s, k, acc) ==
    IF ~k.ok THEN JFail
    ELSE IF At(s, SkipWs(s, k.next)) # ":" THEN JFail
    ELSE MemberNext(s, k, ParseValue(s, SkipWs(s, SkipWs(s, k.next) + 1)), acc)

\* ... and after the value v a comma and the next member, or the brace.
MemberNext(s, k, v, acc) ==
    IF ~v.ok THEN JFail
    ELSE IF At(s, SkipWs(s, v.next)) = ","
        THEN ParseMembers(s, SkipWs(s, SkipWs(s, v.next) + 1),
                          Append(acc, [k |-> k.v.s, v |-> v.v]))
    ELSE IF At(s, SkipWs(s, v.next)) = "}"
        THEN JOk(JVal("object", <<>>, Append(acc, [k |-> k.v.s, v |-> v.v])),
                 SkipWs(s, v.next) + 1)
    ELSE JFail

\* The elements of an array, from the position i of an element ...
ParseElements(s, i) == ElementNext(s, ParseValue(s, i))

\* ... and after the element v a comma and the next element, or the bracket.
ElementNext(s, v) ==
    IF ~v.ok THEN JFail
    ELSE IF At(s, SkipWs(s, v.next)) = ","
        THEN ParseElements(s, SkipWs(s, SkipWs(s, v.next) + 1))
    ELSE IF At(s, SkipWs(s, v.next)) = "]"
        THEN JOk(JVal("array", <<>>, <<>>), SkipWs(s, v.next) + 1)
    ELSE JFail

\* One JSON value from position i (no white space before it).
ParseValue(s, i) ==
    CASE At(s, i) = "{" ->
            IF At(s, SkipWs(s, i + 1)) = "}"
                THEN JOk(JVal("object", <<>>, <<>>), SkipWs(s, i + 1) + 1)
                ELSE ParseMembers(s, SkipWs(s, i + 1), <<>>)
      [] At(s, i) = "[" ->
            IF At(s, SkipWs(s, i + 1)) = "]"
                THEN JOk(JVal("array", <<>>, <<>>), SkipWs(s, i + 1) + 1)
                ELSE ParseElements(s, SkipWs(s, i + 1))
      [] At(s, i) = "\"" -> ParseStringBody(s, i + 1)
      [] At(s, i) = "t" -> ParseLiteral(s, i, <<"t", "r", "u", "e">>, "boolean")
      [] At(s, i) = "f" -> ParseLiteral(s, i, <<"f", "a", "l", "s", "e">>, "boolean")
      [] At(s, i) = "n" -> ParseLiteral(s, i, <<"n", "u", "l", "l">>, "null")
      [] At(s, i) = "-" \/ IsDigit(At(s, i)) -> ParseNumber(s, i)
      [] OTHER -> JFail

\* The whole text was one value, but for white space.
WholeText(s, r) == IF r.ok /\ SkipWs(s, r.next) = Len(s) + 1 THEN r ELSE JFail

\* JSON.parse: one value with optional white space around it, or a
\* SyntaxError (ok = FALSE).
JSONParse(s) == WholeText(s, ParseValue(s, SkipWs(s, 1)))

\* json[key]: the value of the last member named key of an object;
\* undefined ("undefined") for a missing member and for every other type
\* but null, on which the property access throws a TypeError.
GetProp(json, key) ==
    LET hits == {i \in 1..Len(json.fields) : json.fields[i].k = key}
    IN  IF json.t # "object" \/ hits = {} THEN JVal("undefined", <<>>, <<>>)
        ELSE json.fields[CHOOSE i \in hits : \A j \in hits : j <= i].v


\* ------------------------------------------------------------ extraction

\* The field names the convert handler looks for, in its order.
keys ==
    <<<<"D", "o", "c", "B", "a", "s", "e", "6", "4">>,
      <<"D", "o", "c", "u", "m", "e", "n", "t", "B", "a", "s", "e", "6", "4">>,
      <<"F", "i", "l", "e", "B", "a", "s", "e", "6", "4">>,
      <<"P", "d", "f", "B", "a", "s", "e", "6", "4">>,
      <<"D", "a", "t", "a">>,
      <<"P", "d", "f", "D", "a", "t", "a">>>>

\* The data-URI prefix the cleanup removes.
DataUriPrefix ==
    <<"d", "a", "t", "a", ":", "a", "p", "p", "l", "i", "c", "a", "t", "i", "o", "n",
      "/", "p", "d", "f", ";", "b", "a", "s", "e", "6", "4", ",">>

\* The least number of characters of the regular expression's block.
MinBlockLen == 100

\* A test whose class lacks the padding character.
HasNonB64_NoPad(s) == \E i \in 1..Len(s) : ~InAlphabet(s[i])

\* /[^A-Za-z0-9+/=]/.test(s)
HasNonB64(s) == \E i \in 1..Len(s) : ~InB64Class(s[i])

\* A match that takes the longest block of at least MinBlockLen characters
\* (the first of the longest).
RegexMatch_Longest(s) ==
    LET cuts == {0, Len(s) + 1} \cup {i \in 1..Len(s) : ~InB64Class(s[i])}
        nextCut(b) == CHOOSE c \in cuts : c > b /\ \A d \in cuts : d > b => c <= d
        long == {b \in cuts : b <= Len(s) /\ nextCut(b) - b - 1 >= MinBlockLen}
        best == CHOOSE b \in long :
                    \A d \in long : \/ nextCut(d) - d < nextCut(b) - b
                                    \/ (nextCut(d) - d = nextCut(b) - b /\ b <= d)
    IN  IF long = {} THEN [found |-> FALSE, text |-> <<>>]
        ELSE [found |-> TRUE, text |-> Slice(s, best + 1, nextCut(best) - 1)]

\* s.match(/[A-Za-z0-9+/=]{100,}/): the leftmost match, taken greedily.  The
\* positions outside the class (and the two ends) cut s into blocks; the
\* match is the first block of at least MinBlockLen characters, whole.
RegexMatch(s) ==
    LET cuts == {0, Len(s) + 1} \cup {i \in 1..Len(s) : ~InB64Class(s[i])}
        nextCut(b) == CHOOSE c \in cuts : c > b /\ \A d \in cuts : d > b => c <= d
        long == {b \in cuts : b <= Len(s) /\ nextCut(b) - b - 1 >= MinBlockLen}
        first == CHOOSE b \in long : \A d \in long : b <= d
    IN  IF long = {} THEN [found |-> FALSE, text |-> <<>>]
        ELSE [found |-> TRUE, text |-> Slice(s, first + 1, nextCut(first) - 1)]

\* A test that takes every string, the empty one too.
IsTruthyString_AnyString(v) == v.t = "string"

\* json[key] && typeof json[key] === 'string'
IsTruthyString(v) == v.t = "string" /\ v.s # <<>>

\* An extraction that looks for a block whenever no key was chosen.
ExtractFrom_BlockWithoutField(rawInput, p, hits) ==
    IF p.ok /\ hits # {}
        THEN [base64String |->
                  GetProp(p.v, keys[CHOOSE k \in hits : \A j \in hits : k <= j]).s,
              via |-> "field",
              key |-> CHOOSE k \in hits : \A j \in hits : k <= j]
    ELSE IF HasNonB64(rawInput) /\ RegexMatch(rawInput).found
        THEN [base64String |-> RegexMatch(rawInput).text, via |-> "block", key |-> 0]
    ELSE [base64String |-> rawInput, via |-> "whole", key |-> 0]

\* Step 1 of the convert handler, "smart extraction": the Base64 text chosen
\* from the trimmed input, and the path that chose it:
\*   "field"    JSON, and keys[key] is the first key with a non-empty string;
\*   "whole"    JSON with no such key: the input as it is;
\*   "block"    not JSON (or JSON null, whose property access throws), a
\*              character outside the class, and the expression matched;
\*   "nomatch"  as "block", and the expression did not match;
\*   "clean"    not JSON, no character outside the class: no match tried.
ExtractFrom(rawInput, p, hits) ==
    IF p.ok /\ p.v.t # "null"
        THEN IF hits # {}
                 THEN [base64String |->
                           GetProp(p.v, keys[CHOOSE k \in hits : \A j \in hits : k <= j]).s,
                       via |-> "field",
                       key |-> CHOOSE k \in hits : \A j \in hits : k <= j]
                 ELSE [base64String |-> rawInput, via |-> "whole", key |-> 0]
    ELSE IF HasNonB64(rawInput)
        THEN IF RegexMatch(rawInput).found
                 THEN [base64String |-> RegexMatch(rawInput).text, via |-> "block",
                       key |-> 0]
                 ELSE [base64String |-> rawInput, via |-> "nomatch", key |-> 0]
    ELSE [base64String |-> rawInput, via |-> "clean", key |-> 0]

\* The keys (their places in keys) whose value in the parsed JSON p passes
\* the handler's test.
StringKeys(p) == {k \in 1..Len(keys) : IsTruthyString(GetProp(p.v, keys[k]))}

ExtractParsed(rawInput, p) == ExtractFrom(rawInput, p, StringKeys(p))

Extract(rawInput) == ExtractParsed(rawInput, JSONParse(rawInput))

\* Step 2, cleanup: the data-URI prefix off the front, then all white space.
Cleanup(s) ==
    LET noPrefix == IF StartsWith(s, DataUriPrefix)
                        THEN Slice(s, Len(DataUriPrefix) + 1, Len(s))
                        ELSE s
    IN  SelectSeq(noPrefix, LAMBDA c : ~IsSpace(c))

DotPdf == <<".", "p", "d", "f">>

ConvertedPdf == <<"c", "o", "n", "v", "e", "r", "t", "e", "d">> \o DotPdf

\* A name that gets the extension whenever it is not empty.
OutputFilename_AlwaysAppends(userFilename) ==
    IF userFilename # <<>> THEN userFilename \o DotPdf ELSE ConvertedPdf

\* Step 6: the name of the download, from the trimmed file name field.
OutputFilename(userFilename) ==
    IF EndsWith(userFilename, DotPdf) THEN userFilename
    ELSE IF userFilename # <<>> THEN userFilename \o DotPdf
    ELSE ConvertedPdf


\* ------------------------------------------------------------ files

\* The character of a byte of a text file, as file.text() decodes it (the
\* ASCII this model's files hold; "?" stands for every other byte).
CharOfCode(b) ==
    CASE b >= 65 /\ b <= 90  -> B64Chars[b - 64]
      [] b >= 97 /\ b <= 122 -> B64Chars[b - 70]
      [] b >= 48 /\ b <= 57  -> B64Chars[b + 5]
      [] b = 43 -> "+"
      [] b = 47 -> "/"
      [] b = 61 -> "="
      [] b = 32 -> " "
      [] b = 10 -> "\n"
      [] b = 33 -> "!"
      [] OTHER  -> "?"

\* file.text()
TextOf(bytes) == [i \in 1..Len(bytes) |-> CharOfCode(bytes[i])]

\* String.prototype.toLowerCase, on the letters of the alphabet.
ToLower(s) ==
    [i \in 1..Len(s) |->
        IF \E k \in 1..26 : B64Chars[k] = s[i]
            THEN B64Chars[(CHOOSE k \in 1..26 : B64Chars[k] = s[i]) + 26]
            ELSE s[i]]

\* fileName.endsWith('.txt') || fileName.endsWith('.json') || fileName.endsWith('.xml')
IsTextName(fileName) ==
    \/ EndsWith(fileName, <<".", "t", "x", "t">>)
    \/ EndsWith(fileName, <<".", "j", "s", "o", "n">>)
    \/ EndsWith(fileName, <<".", "x", "m", "l">>)

\* file.name.replace(/\.[^/.]+$/, ""): the name without its last extension.
StripExtension(name) ==
    LET dots == {i \in 1..Len(name) : name[i] = "."}
        last == CHOOSE i \in dots : \A j \in dots : j <= i
    IN  IF dots # {} /\ last < Len(name)
           /\ \A j \in (last + 1)..Len(name) : name[j] # "/"
            THEN Slice(name, 1, last - 1)
            ELSE name

\* ------------------------------------------------------------ bounds

\* Object URLs the browser hands out in one session of the model.
MaxUrls == 2

\* File reads that may be pending at once.
MaxPending == 2

\* Timers of the copy button that may be pending at once.
MaxTimers == 2

\* ------------------------------------------------------------ state

VARIABLES
    base64Input,        \* base64Input.value
    filenameInput,      \* filenameInput.value
    statusMessage,      \* textContent, className and style.display of the status line
    downloadContainer,  \* the children of the download container, in order
    liveUrls,           \* the object URLs created and not revoked
    urlCount,           \* the object URLs created so far (URL n is the n-th)
    reads,              \* the file reads awaited, in the order of their selection
    latest,             \* the file selected last, and what became of its read
    copyBtn,            \* textContent of the copy button
    timers,             \* the timers of the copy button not yet fired, each
                        \* with the originalText its callback restores
    selection,          \* what is selected in the text area: nothing, or all
    clipboard,          \* the text on the clipboard
    last,               \* the locals of the convert handler, when it ran last
    lastEvent           \* the handler that ran last, and how it ended

vars ==
    <<base64Input, filenameInput, statusMessage, downloadContainer, liveUrls,
      urlCount, reads, latest, copyBtn, timers, selection, clipboard, last,
      lastEvent>>

\* The copy button, its timers and the clipboard.
copyVars == <<copyBtn, timers, clipboard>>

\* What the user types into the text area and the file name field, and the
\* files the user picks.
SampleInputs ==
    { <<>>,
      <<" ", "\n">>,
      <<"Q", "U", "J", "D">>,
      <<"Q", "!">> }

SampleFilenames ==
    { <<>>, <<"b">>, <<" ", "b">> \o DotPdf }

SampleFiles ==
    { [name |-> <<"b", ".", "T", "X", "T">>, bytes |-> <<32, 81, 85, 74, 68, 10>>],
      [name |-> <<"b", ".", "p", "n", "g">>, bytes |-> <<1, 2>>] }

\* No file selected yet.
NoFile == [name |-> <<>>, bytes |-> <<>>]

\* The label the page gives the copy button, and the label of line 98.
OriginalLabel == <<"C", "o", "p", "y">>

Copied == <<"C", "o", "p", "i", "e", "d", "!">>

\* A status text: a message of the script and the value interpolated in it.
Msg(text) == [text |-> text, arg |-> <<>>]

\* showStatus(message, type): the display style is left as it is.
showStatus(sm, message, type) ==
    [sm EXCEPT !.textContent = message, !.className = <<"status-message", type>>]

\* A clearStatus that hides the status line and keeps its text and class.
clearStatus_KeepsText(sm) == [sm EXCEPT !.display = "none"]

\* clearStatus()
clearStatus(sm) ==
    [textContent |-> Msg(""), className |-> <<"status-message">>, display |-> "none"]

\* The convert handler's locals when another handler ran last, or when it
\* returned before the extraction.  Of a run: the trimmed input, the text
\* extracted, the path that chose it, the cleaned text, whether atob took
\* it and the bytes of the blob, the download's name, the URL created, the
\* auto-download anchor, the URLs revoked, whether the URL was live when the auto-download anchor was
\* clicked, the anchors the handler left attached to the body, and the
\* event the run came after.
NoRun ==
    [rawInput |-> <<>>, base64String |-> <<>>, via |-> "none", key |-> 0,
     cleaned |-> <<>>, ok |-> FALSE, bytes |-> <<>>, filename |-> <<>>,
     url |-> 0, anchor |-> [href |-> 0, download |-> <<>>], revoked |-> {},
     clickedLive |-> FALSE, anchorsLeft |-> 0, after |-> "none"]

Init ==
    /\ base64Input = <<>>
    /\ filenameInput = <<>>
    /\ statusMessage = [textContent |-> Msg(""), className |-> <<"status-message">>,
                        display |-> ""]
    /\ downloadContainer = <<>>
    /\ liveUrls = {}
    /\ urlCount = 0
    /\ reads = <<>>
    /\ latest = [file |-> NoFile, state |-> "none"]
    /\ copyBtn = [textContent |-> OriginalLabel]
    /\ timers = <<>>
    /\ selection = "none"
    /\ clipboard = <<>>
    /\ last = NoRun
    /\ lastEvent = "load"


\* ------------------------------------------------------------ handlers

\* A convert and a clear handler that revoke nothing.
ExistingBlobUrls_None(container) == {}

\* downloadContainer.querySelector('.download-btn') and its dataset.blobUrl:
\* the URLs the convert and the clear handler revoke (one, or none).
ExistingBlobUrls(container) ==
    LET btns == {i \in 1..Len(container) : container[i].className = "download-btn"}
        existingBtn == container[CHOOSE i \in btns : \A j \in btns : i <= j]
    IN  IF btns # {} /\ existingBtn.blobUrl # 0 THEN {existingBtn.blobUrl} ELSE {}

\* The temporary anchor of step 7.
Anchor(url, filename) == [href |-> url, download |-> filename]

\* The visible download control of step 9.
DownloadBtn(url, filename) ==
    [href |-> url, download |-> filename, className |-> "download-btn",
     textContent |-> <<"D", "o", "w", "n", "l", "o", "a", "d", " ">> \o filename,
     blobUrl |-> url]

\* Steps 1 to 3 of the convert handler on the trimmed input: extraction,
\* cleanup, atob and the copy of the binary string into the byte array.
DecodeCleaned(rawInput, e, c, d) ==
    [rawInput |-> rawInput, base64String |-> e.base64String, via |-> e.via,
     key |-> e.key, cleaned |-> c, ok |-> d.ok, bytes |-> d.bytes]

DecodeExtracted(rawInput, e, c) == DecodeCleaned(rawInput, e, c, Atob(c))

Decode(rawInput) ==
    DecodeExtracted(rawInput, Extract(rawInput), Cleanup(Extract(rawInput).base64String))

\* A container that keeps its children.
EmptyInnerHTML_Keeps(container) == container

\* downloadContainer.innerHTML = ''
EmptyInnerHTML(container) == <<>>

\* The user edits the text area.
EditInput(text) ==
    /\ base64Input' = text
    /\ selection' = "none"
    /\ lastEvent' = "edit"
    /\ last' = NoRun
    /\ UNCHANGED <<filenameInput, statusMessage, downloadContainer, liveUrls,
                   urlCount, reads, latest, copyVars>>

\* The user edits the file name field.
EditFilename(name) ==
    /\ filenameInput' = name
    /\ lastEvent' = "edit"
    /\ last' = NoRun
    /\ UNCHANGED <<base64Input, statusMessage, downloadContainer, liveUrls,
                   urlCount, reads, latest, selection, copyVars>>

\* fileInput "change" with no file chosen: the handler returns at once.
FileInputChangeNone ==
    /\ lastEvent' = "select-none"
    /\ last' = NoRun
    /\ UNCHANGED <<base64Input, filenameInput, statusMessage, downloadContainer,
                   liveUrls, urlCount, reads, latest, selection, copyVars>>

\* fileInput "change" up to its await: the status, the container emptied (its
\* control's URL is not revoked), and the read of the file started.
FileInputChange(file) ==
    /\ Len(reads) < MaxPending
    /\ statusMessage' = showStatus(statusMessage,
                                   [text |-> "Reading ${file.name}...", arg |-> file.name],
                                   "info")
    /\ downloadContainer' = EmptyInnerHTML(downloadContainer)
    /\ reads' = Append(reads, file)
    /\ latest' = [file |-> file, state |-> "pending"]
    /\ lastEvent' = "select"
    /\ last' = NoRun
    /\ UNCHANGED <<base64Input, filenameInput, liveUrls, urlCount, selection,
                   copyVars>>

Remove(s, i) == Slice(s, 1, i - 1) \o Slice(s, i + 1, Len(s))

\* The file selected last, after the i-th awaited read ended in state: the
\* last read awaited is that file's while it is pending.
LatestAfter(i, state) ==
    IF i = Len(reads) /\ latest.state = "pending"
        THEN [latest EXCEPT !.state = state]
        ELSE latest

\* The i-th awaited read delivers the file: the rest of the handler's try
\* block, then the reset of the file input.
FileReadDone(i) ==
    LET file == reads[i]
    IN  /\ IF IsTextName(ToLower(file.name))
               THEN /\ base64Input' = Trim(TextOf(file.bytes))
                    /\ statusMessage' = showStatus(statusMessage,
                           Msg("Text file loaded. Ready to convert."), "success")
               ELSE /\ base64Input' = arrayBufferToBase64(file.bytes)
                    /\ statusMessage' = showStatus(statusMessage,
                           Msg("File converted to Base64. Ready to convert to PDF."),
                           "success")
        /\ filenameInput' = IF filenameInput = <<>>
                                THEN StripExtension(file.name) \o DotPdf
                                ELSE filenameInput
        /\ reads' = Remove(reads, i)
        /\ latest' = LatestAfter(i, "done")
        /\ selection' = "none"
        /\ lastEvent' = "read-done"
        /\ last' = NoRun
        /\ UNCHANGED <<downloadContainer, liveUrls, urlCount, copyVars>>

\* A catch block that empties the text area as well.
FileReadFail_ClearsInput(i) ==
    /\ statusMessage' = showStatus(statusMessage, Msg("Error reading file."), "error")
    /\ base64Input' = <<>>
    /\ reads' = Remove(reads, i)
    /\ latest' = LatestAfter(i, "failed")
    /\ lastEvent' = "read-fail"
    /\ last' = NoRun
    /\ UNCHANGED <<filenameInput, downloadContainer, liveUrls, urlCount, selection,
                   copyVars>>

\* The i-th awaited read rejects: the catch block, then the reset.
FileReadFail(i) ==
    /\ statusMessage' = showStatus(statusMessage, Msg("Error reading file."), "error")
    /\ reads' = Remove(reads, i)
    /\ latest' = LatestAfter(i, "failed")
    /\ lastEvent' = "read-fail"
    /\ last' = NoRun
    /\ UNCHANGED <<base64Input, filenameInput, downloadContainer, liveUrls,
                   urlCount, selection, copyVars>>

\* clearBtn "click" (of its locals, last keeps the URLs revoked and the event
\* the click came after).
ClearBtnClick ==
    /\ base64Input' = <<>>
    /\ filenameInput' = <<>>
    /\ liveUrls' = liveUrls \ ExistingBlobUrls(downloadContainer)
    /\ downloadContainer' = EmptyInnerHTML(downloadContainer)
    /\ statusMessage' = clearStatus(statusMessage)
    /\ selection' = "none"
    /\ lastEvent' = "clear"
    /\ last' = [NoRun EXCEPT !.revoked = ExistingBlobUrls(downloadContainer),
                             !.after = lastEvent]
    /\ UNCHANGED <<urlCount, reads, latest, copyVars>>

\* copyBtn "click": with text in the text area, the text selected and
\* copied (copied: whether document.execCommand('copy') put it on the
\* clipboard), the label saved, replaced, and a timer set to put the saved
\* label back.
CopyBtnClick(copied) ==
    /\ IF base64Input = <<>>
           THEN /\ lastEvent' = "copy-empty"
                /\ UNCHANGED <<selection, copyVars>>
           ELSE /\ Len(timers) < MaxTimers
                /\ selection' = "all"
                /\ clipboard' = IF copied THEN base64Input ELSE clipboard
                /\ copyBtn' = [copyBtn EXCEPT !.textContent = Copied]
                /\ timers' = Append(timers, [originalText |-> copyBtn.textContent])
                /\ lastEvent' = "copy"
    /\ last' = NoRun
    /\ UNCHANGED <<base64Input, filenameInput, statusMessage, downloadContainer,
                   liveUrls, urlCount, reads, latest>>

\* The oldest timer fires (all have the same delay): its callback puts the
\* label it saved back.
CopyTimerFire ==
    /\ timers # <<>>
    /\ copyBtn' = [copyBtn EXCEPT !.textContent = Head(timers).originalText]
    /\ timers' = Tail(timers)
    /\ lastEvent' = "copy-timer"
    /\ last' = NoRun
    /\ UNCHANGED <<base64Input, filenameInput, statusMessage, downloadContainer,
                   liveUrls, urlCount, reads, latest, selection, clipboard>>

\* A convert handler that revokes the fresh URL as well, after the click.
LiveAfterConvert_RevokesNew(live, container, url) ==
    live \ ExistingBlobUrls(container)

\* A convert handler that revokes only when the input decoded.
LiveAfterConvert_KeepsOnFailure(live, container, url) ==
    IF url > 0 THEN (live \ ExistingBlobUrls(container)) \cup {url} ELSE live

\* The live URLs after the convert handler's revocation and, for url > 0,
\* URL.createObjectURL.
LiveAfterConvert(live, container, url) ==
    (live \ ExistingBlobUrls(container)) \cup (IF url > 0 THEN {url} ELSE {})

\* The convert handler's locals after a run on the decoding d.
RunOf(d, filename, url, revoked, clickedLive) ==
    [rawInput |-> d.rawInput, base64String |-> d.base64String, via |-> d.via,
     key |-> d.key, cleaned |-> d.cleaned, ok |-> d.ok, bytes |-> d.bytes,
     filename |-> filename, url |-> url, anchor |-> Anchor(url, filename),
     revoked |-> revoked,
     clickedLive |-> clickedLive, anchorsLeft |-> 0, after |-> lastEvent]

\* convertBtn "click" on the trimmed input rawInput, decoded as d, with
\* url the next object URL and filename the download's name.  With empty
\* input: the error status and nothing else.  Otherwise the control's URL is
\* revoked and the container emptied before the extraction; a decoded
\* input gets the fresh URL, the auto-download anchor (appended, clicked,
\* removed) and the new control; an input atob rejects gets the error
\* status.
ConvertClick(rawInput, d, url, filename) ==
    /\ urlCount < MaxUrls
    /\ IF rawInput = <<>>
           THEN /\ statusMessage' = showStatus(statusMessage,
                       Msg("Please provide Base64 input."), "error")
                /\ last' = NoRun
                /\ lastEvent' = "convert-empty"
                /\ UNCHANGED <<downloadContainer, liveUrls, urlCount>>
       ELSE IF d.ok
           THEN /\ liveUrls' = LiveAfterConvert(liveUrls, downloadContainer, url)
                /\ urlCount' = url
                /\ downloadContainer' =
                       Append(EmptyInnerHTML(downloadContainer), DownloadBtn(url, filename))
                /\ statusMessage' = showStatus(statusMessage,
                       Msg("PDF generated and download started."), "success")
                /\ last' = RunOf(d, filename, url, ExistingBlobUrls(downloadContainer),
                                 url \in liveUrls')
                /\ lastEvent' = "convert-done"
           ELSE /\ liveUrls' = LiveAfterConvert(liveUrls, downloadContainer, 0)
                /\ downloadContainer' = EmptyInnerHTML(downloadContainer)
                /\ statusMessage' = showStatus(statusMessage,
                       Msg("Invalid Base64 string. Please check the input."), "error")
                /\ last' = RunOf(d, <<>>, 0, ExistingBlobUrls(downloadContainer), FALSE)
                /\ lastEvent' = "convert-failed"
                /\ UNCHANGED urlCount
    /\ UNCHANGED <<base64Input, filenameInput, reads, latest, selection, copyVars>>

\* A convert handler that tests the input for emptiness as it was typed.
ConvertBtnClick_Untrimmed ==
    ConvertClick(base64Input, Decode(Trim(base64Input)), urlCount + 1,
                 OutputFilename(Trim(filenameInput)))

ConvertBtnClick ==
    ConvertClick(Trim(base64Input), Decode(Trim(base64Input)), urlCount + 1,
                 OutputFilename(Trim(filenameInput)))

Next ==
    \/ \E text \in SampleInputs : EditInput(text)
    \/ \E name \in SampleFilenames : EditFilename(name)
    \/ FileInputChangeNone
    \/ \E file \in SampleFiles : FileInputChange(file)
    \/ \E i \in 1..Len(reads) : FileReadDone(i)
    \/ \E i \in 1..Len(reads) : FileReadFail(i)
    \/ ClearBtnClick
    \/ ConvertBtnClick

Spec == Init /\ [][Next]_vars


\* ------------------------------------------------------------ extraction alone

\* The texts the convert handler is run on, one click each: short texts,
\* JSON documents, and texts of two blocks of alphabet characters around
\* MinBlockLen long with a separator between them, bare and after the
\* data-URI prefix.
ShortInputs ==
    { <<"Q", "U", "J", "D">>,
      <<"Q", "Q", "=", "=">>,
      <<"Q", "U", "I", "=">>,
      <<"Q", "Q">>,
      <<"Q">>,
      <<"Q", "R", "=", "=">>,
      <<"Q", "!">>,
      <<"Q", "U", " ", "J", "D">>,
      <<"Q", "U", "\n", "I", "=">>,
      <<"n", "u", "l", "l">>,
      <<"1", "2", "3", "4">>,
      <<"t", "r", "u", "e">>,
      <<" ", "\n">>,
      <<" ", "Q", "U", "I", "=", "\n">>,
      <<"=", "Q", "U", "J">>,
      <<"Q", "=", "Q", "=">>,
      <<"Q", "U", "J", "D", "Q", "Q", "=", "=">> }

JsonInputs ==
    { <<"{", "\"", "D", "a", "t", "a", "\"", ":", "\"", "Q", "U", "J", "D", "\"", "}">>,
      <<"{", "\"", "D", "o", "c", "B", "a", "s", "e", "6", "4", "\"", ":", "\"", "\"", ",", "\"", "D", "a", "t", "a", "\"", ":", "\"", "Q", "U", "J", "D", "\"", "}">>,
      <<"{", "\"", "P", "d", "f", "D", "a", "t", "a", "\"", ":", "\"", "Q", "Q", "=", "=", "\"", ",", "\"", "D", "a", "t", "a", "\"", ":", "\"", "Q", "U", "J", "D", "\"", "}">>,
      <<"{", "\"", "D", "a", "t", "a", "\"", ":", "1", ",", "\"", "P", "d", "f", "D", "a", "t", "a", "\"", ":", "\"", "Q", "Q", "=", "=", "\"", "}">>,
      <<"{", "\"", "x", "\"", ":", "\"", "Q", "U", "J", "D", "\"", "}">>,
      <<"{", "\"", "D", "a", "t", "a", "\"", ":", "\"", "Q", "U", "\\", "n", "J", "D", "\"", "}">>,
      <<"{", "\"", "D", "o", "c", "B", "a", "s", "e", "6", "4", "\"", ":", "\"", "\"", "}">>,
      <<"{", "\"", "D", "a", "t", "a", "\"", ":", "\"", "Q", "U", "J", "D", "\"", ",", "\"", "D", "a", "t", "a", "\"", ":", "1", "}">>,
      <<"[", "\"", "Q", "U", "J", "D", "\"", "]">>,
      <<"\"", "Q", "U", "J", "D", "\"">>,
      <<"{", " ", "\"", "F", "i", "l", "e", "B", "a", "s", "e", "6", "4", "\"", " ", ":", " ", "\"", "d", "a", "t", "a", ":", "a", "p", "p", "l", "i", "c", "a", "t", "i", "o", "n", "/", "p", "d", "f", ";", "b", "a", "s", "e", "6", "4", ",", "Q", "U", " ", "J", "D", "\"", " ", "}">>,
      <<"{", "\"", "D", "a", "t", "a", "\"", ":", "\"", "Q", "!", "\"", "}">>,
      <<"{", "\"", "D", "a", "t", "a", "\"", ":", "{", "\"", "P", "d", "f", "D", "a", "t", "a", "\"", ":", "\"", "Q", "U", "J", "D", "\"", "}", "}">>,
      <<"{", "\"", "D", "a", "t", "a", "\"", ":", "\"", "Q", "U", "J", "D", "\"">>,
      <<"{", "\"", "D", "o", "c", "u", "m", "e", "n", "t", "B", "a", "s", "e", "6", "4", "\"", ":", "n", "u", "l", "l", ",", "\"", "P", "d", "f", "B", "a", "s", "e", "6", "4", "\"", ":", "\"", "Q", "U", "I", "=", "\"", "}">> }

BlockLens == {4, MinBlockLen - 4, MinBlockLen, MinBlockLen + 4}

BlockInputs ==
    {Rep("A", n) \o sep \o Rep("B", m) :
        n \in BlockLens, m \in BlockLens, sep \in {<<"\n">>, <<"!">>}}
    \cup {DataUriPrefix \o Rep("A", n) : n \in BlockLens}
    \cup {<<"{", "\"", "D", "a", "t", "a", "\"", ":", "\"">> \o Rep("A", n) : n \in BlockLens}
    \cup {<<"{", "\"", "x", "\"", ":", "\"">> \o Rep("A", n) \o <<"\"", "}">> :
              n \in BlockLens}
    \cup {<<"[", "1", ",", "\"">> \o Rep("A", n) \o <<"\"", "]">> : n \in BlockLens}

ExtractInputs == ShortInputs \cup JsonInputs \cup BlockInputs

InitExtract ==
    /\ base64Input \in ExtractInputs
    /\ filenameInput = <<>>
    /\ statusMessage = [textContent |-> Msg(""), className |-> <<"status-message">>,
                        display |-> ""]
    /\ downloadContainer = <<>>
    /\ liveUrls = {}
    /\ urlCount = 0
    /\ reads = <<>>
    /\ latest = [file |-> NoFile, state |-> "none"]
    /\ copyBtn = [textContent |-> OriginalLabel]
    /\ timers = <<>>
    /\ selection = "none"
    /\ clipboard = <<>>
    /\ last = NoRun
    /\ lastEvent = "load"

NextExtract == ConvertBtnClick

SpecExtract == InitExtract /\ [][NextExtract]_vars

\* ------------------------------------------------------------ file names alone

\* The names the convert handler is run on, one click each: a stem, with
\* and without the extension or something close to it, with and without
\* white space around it.
FilenameStems ==
    { <<>>, <<"b">>, <<"b", " ", "c">>, <<"b", ".", "P", "D", "F">>, <<"p", "d", "f">> }

FilenameExts ==
    { <<>>, DotPdf, <<".", "p", "d">>, DotPdf \o <<".">>, DotPdf \o DotPdf }

FilenameInputs ==
    {pre \o stem \o ext \o post :
        pre \in {<<>>, <<" ">>}, stem \in FilenameStems, ext \in FilenameExts,
        post \in {<<>>, <<" ">>, <<"\t", "\n">>}}

InitFilename ==
    /\ base64Input \in SampleInputs
    /\ filenameInput \in FilenameInputs
    /\ statusMessage = [textContent |-> Msg(""), className |-> <<"status-message">>,
                        display |-> ""]
    /\ downloadContainer = <<>>
    /\ liveUrls = {}
    /\ urlCount = 0
    /\ reads = <<>>
    /\ latest = [file |-> NoFile, state |-> "none"]
    /\ copyBtn = [textContent |-> OriginalLabel]
    /\ timers = <<>>
    /\ selection = "none"
    /\ clipboard = <<>>
    /\ last = NoRun
    /\ lastEvent = "load"

NextFilename == ConvertBtnClick

SpecFilename == InitFilename /\ [][NextFilename]_vars

\* ------------------------------------------------------------ the copy button alone

\* The copy handler and its timers share the text area with the other
\* handlers and nothing else: they run here with the handlers that write
\* the text area by hand.
NextCopy ==
    \/ \E text \in SampleInputs : EditInput(text)
    \/ ClearBtnClick
    \/ \E copied \in BOOLEAN : CopyBtnClick(copied)
    \/ CopyTimerFire

SpecCopy == Init /\ [][NextCopy]_vars

\* ------------------------------------------------------------ claims

\* The URLs the controls of a container are bound to.
BoundUrls(container) == {container[i].blobUrl : i \in 1..Len(container)}

\* C1: in every reachable state at most one object URL is alive.
C1_AtMostOneLiveUrl == Cardinality(liveUrls) <= 1

\* C2: when a conversion that decoded follows a conversion that decoded with
\* no event in between, the URL of the first is revoked in the step that
\* creates the second: the two are never alive together.
C2_SuccessiveConversionsRelease ==
    [][(lastEvent = "convert-done" /\ lastEvent' = "convert-done")
          => /\ last.url \in liveUrls
             /\ last'.url # last.url
             /\ last'.url \in liveUrls'
             /\ last.url \notin liveUrls']_vars

C2_Witness ==
    /\ lastEvent = "convert-done"
    /\ last.after = "convert-done"
    /\ last.revoked = {last.url - 1}
    /\ liveUrls = {last.url}

\* C3 as claimed: a conversion whose input does not decode leaves the
\* download control and the live URLs as they were.
C3_FailedConversionKeepsArtifact ==
    [][lastEvent' = "convert-failed"
          => downloadContainer' = downloadContainer /\ liveUrls' = liveUrls]_vars

\* C3 amended: a conversion whose input does not decode creates no URL and
\* no control; the control that was there is removed and the URL it was
\* bound to is revoked, and no other URL changes.
C3_FailedConversionTearsDown ==
    [][lastEvent' = "convert-failed"
          => /\ downloadContainer' = <<>>
             /\ urlCount' = urlCount
             /\ liveUrls' = liveUrls \ BoundUrls(downloadContainer)]_vars

C3_Witness ==
    /\ lastEvent = "convert-failed"
    /\ ~last.ok
    /\ last.revoked # {}
    /\ downloadContainer = <<>>
    /\ liveUrls = {}

\* C4: the URL of every control in the container is alive, and the URL of
\* the auto-download anchor was alive when the anchor was clicked, the
\* anchor being detached again when the handler returns.
C4_ReferencedUrlsAlive ==
    /\ \A i \in 1..Len(downloadContainer) :
           /\ downloadContainer[i].href \in liveUrls
           /\ downloadContainer[i].blobUrl = downloadContainer[i].href
    /\ lastEvent = "convert-done" => last.clickedLive /\ last.anchorsLeft = 0

C4_Witness ==
    /\ lastEvent = "convert-done"
    /\ Len(downloadContainer) = 1
    /\ last.revoked # {}
    /\ last.clickedLive

\* C5: the clear handler empties the container, revokes the URL its control
\* was bound to, leaves the status line without text and without a style
\* class, and empties the text area and the file name field.
C5_ClearResets ==
    [][lastEvent' = "clear"
          => /\ downloadContainer' = <<>>
             /\ BoundUrls(downloadContainer) \cap liveUrls' = {}
             /\ statusMessage'.textContent = Msg("")
             /\ statusMessage'.className = <<"status-message">>
             /\ base64Input' = <<>>
             /\ filenameInput' = <<>>]_vars

C5_Witness ==
    /\ lastEvent = "clear"
    /\ last.after = "convert-done"
    /\ last.revoked = {urlCount}
    /\ liveUrls = {}
    /\ downloadContainer = <<>>
    /\ statusMessage.textContent = Msg("")
    /\ base64Input = <<>>

\* C6: the container holds at most one control, and right after a
\* conversion that decoded exactly one, bound to the URL that conversion
\* created.
C6_SingleControl ==
    /\ Len(downloadContainer) <= 1
    /\ lastEvent = "convert-done"
           => /\ Len(downloadContainer) = 1
              /\ downloadContainer[1].href = last.url
              /\ downloadContainer[1].blobUrl = last.url
              /\ last.url = urlCount
              /\ downloadContainer[1].className = "download-btn"

C6_Witness ==
    /\ lastEvent = "convert-done"
    /\ last.revoked # {}
    /\ Len(downloadContainer) = 1
    /\ downloadContainer[1].href = 2


\* The convert handler ran last and got to its extraction.
Extracted == lastEvent \in {"convert-done", "convert-failed"}

\* The text without the leading data-URI prefix and without white space.
InputPayload(text) ==
    SelectSeq(IF StartsWith(text, DataUriPrefix)
                  THEN Slice(text, Len(DataUriPrefix) + 1, Len(text))
                  ELSE text,
              LAMBDA c : ~IsSpace(c))

\* Base64 as RFC 4648 writes it: whole groups of four characters, padded,
\* the unused bits of the last group zero.
IsCanonicalB64(n) ==
    /\ Len(n) % 4 = 0
    /\ \A i \in 1..(Len(n) - 2) : InAlphabet(n[i])
    /\ Len(n) > 0 =>
           \/ InAlphabet(n[Len(n) - 1]) /\ InAlphabet(n[Len(n)])
           \/ /\ InAlphabet(n[Len(n) - 1]) /\ n[Len(n)] = Pad
              /\ B64Value(n[Len(n) - 1]) % 4 = 0
           \/ /\ n[Len(n) - 1] = Pad /\ n[Len(n)] = Pad
              /\ B64Value(n[Len(n) - 2]) % 16 = 0

\* C7: for valid Base64 input, with or without the prefix and white space,
\* the bytes decoded, encoded again, are the input without prefix and white
\* space.
C7_RoundTrip ==
    (Extracted /\ IsCanonicalB64(InputPayload(last.rawInput)))
        => last.ok /\ Btoa(last.bytes) = InputPayload(last.rawInput)

\* The recognized keys whose value in the parsed text is a string, and those
\* whose value is a string that is not empty.
KeysOfStrings(text) ==
    {k \in 1..Len(keys) : GetProp(JSONParse(text).v, keys[k]).t = "string"}

KeysOfNonEmptyStrings(text) ==
    {k \in KeysOfStrings(text) : GetProp(JSONParse(text).v, keys[k]).s # <<>>}

Least(S) == CHOOSE k \in S : \A j \in S : k <= j

\* C8 as claimed: for JSON input with a recognized key whose value is a
\* string, the text extracted is the value of the first such key in the
\* order of keys.
C8_FirstStringField ==
    (Extracted /\ JSONParse(last.rawInput).ok /\ KeysOfStrings(last.rawInput) # {})
        => last.base64String =
               GetProp(JSONParse(last.rawInput).v,
                       keys[Least(KeysOfStrings(last.rawInput))]).s

\* C8 amended: for JSON input with a recognized key whose value is a string
\* that is not empty, the text extracted is the value of the first such key
\* in the order of keys.
C8_FirstNonEmptyStringField ==
    (Extracted /\ JSONParse(last.rawInput).ok
       /\ KeysOfNonEmptyStrings(last.rawInput) # {})
        => /\ last.via = "field"
           /\ last.base64String =
                  GetProp(JSONParse(last.rawInput).v,
                          keys[Least(KeysOfNonEmptyStrings(last.rawInput))]).s

\* A recognized key with an empty string comes before the key chosen, and
\* the document holds further members.
C8_Witness ==
    /\ Extracted
    /\ last.via = "field"
    /\ KeysOfStrings(last.rawInput) # KeysOfNonEmptyStrings(last.rawInput)
    /\ Least(KeysOfStrings(last.rawInput)) < last.key
    /\ Len(JSONParse(last.rawInput).v.fields) > 1
    /\ last.base64String # <<>>

\* The blocks of a text: the runs of characters of the class, each as long
\* as it can be, of at least MinBlockLen characters, as <<first, last>>.
Blocks(text) ==
    LET inClass(i) == i >= 1 /\ i <= Len(text) /\ InB64Class(text[i])
        starts == {a \in 1..Len(text) : inClass(a) /\ ~inClass(a - 1)}
        ends   == {b \in 1..Len(text) : inClass(b) /\ ~inClass(b + 1)}
    IN  {blk \in starts \X ends :
            /\ blk[2] - blk[1] + 1 >= MinBlockLen
            /\ \A k \in blk[1]..blk[2] : inClass(k)}

\* The input is not JSON, holds a character outside the class, and a block.
DirtyWithBlock(text) ==
    /\ ~JSONParse(text).ok
    /\ \E i \in 1..Len(text) : ~InB64Class(text[i])
    /\ Blocks(text) # {}

\* C9 as claimed: for such input the text extracted is the longest block.
C9_LongestBlock ==
    (Extracted /\ DirtyWithBlock(last.rawInput))
        => \E blk \in Blocks(last.rawInput) :
               /\ last.base64String = SubSeq(last.rawInput, blk[1], blk[2])
               /\ \A other \in Blocks(last.rawInput) :
                      other[2] - other[1] <= blk[2] - blk[1]

\* C9 amended: for such input the text extracted is the first block.
C9_FirstBlock ==
    (Extracted /\ DirtyWithBlock(last.rawInput))
        => \E blk \in Blocks(last.rawInput) :
               /\ last.via = "block"
               /\ last.base64String = SubSeq(last.rawInput, blk[1], blk[2])
               /\ \A other \in Blocks(last.rawInput) : blk[1] <= other[1]

\* Two blocks, the second the longer one.
C9_Witness ==
    /\ Extracted
    /\ DirtyWithBlock(last.rawInput)
    /\ \E b1, b2 \in Blocks(last.rawInput) :
           /\ b1[1] < b2[1]
           /\ b1[2] - b1[1] < b2[2] - b2[1]
           /\ last.base64String = SubSeq(last.rawInput, b1[1], b1[2])

\* C10: for input that is not JSON and holds no character outside the
\* class, the text extracted is the trimmed input, and the regular
\* expression of the fallback is not run.
C10_CleanPassesThrough ==
    (Extracted /\ ~JSONParse(last.rawInput).ok
       /\ \A i \in 1..Len(last.rawInput) : InB64Class(last.rawInput[i]))
        => /\ last.base64String = Trim(base64Input)
           /\ last.via = "clean"

\* Clean input with padding, and with white space around it to trim.
C10_Witness ==
    /\ Extracted
    /\ last.via = "clean"
    /\ ~JSONParse(last.rawInput).ok
    /\ \E i \in 1..Len(last.rawInput) : last.rawInput[i] = Pad
    /\ base64Input # last.rawInput
    /\ last.base64String = last.rawInput


\* The events of the convert handler.
ConvertEvents == {"convert-empty", "convert-done", "convert-failed"}

\* C11 as claimed: after a conversion whose input did not decode the status
\* line is displayed, holds the decode-failure message in the error style,
\* and the container holds no control.
C11_DecodeFailureVisible ==
    lastEvent = "convert-failed"
        => /\ statusMessage.display # "none"
           /\ statusMessage.textContent =
                  Msg("Invalid Base64 string. Please check the input.")
           /\ statusMessage.className = <<"status-message", "error">>
           /\ downloadContainer = <<>>

\* C12: a convert click on input that is empty once trimmed sets the error
\* status and nothing else: no extraction, no URL created or revoked, and
\* the container, the text area and the file name field as they were.
C12_EmptyInputFrame ==
    [][(lastEvent' \in ConvertEvents /\ Trim(base64Input) = <<>>)
          => /\ lastEvent' = "convert-empty"
             /\ statusMessage'.textContent = Msg("Please provide Base64 input.")
             /\ statusMessage'.className = <<"status-message", "error">>
             /\ statusMessage'.display = statusMessage.display
             /\ last'.via = "none"
             /\ UNCHANGED <<downloadContainer, liveUrls, urlCount, base64Input,
                            filenameInput, reads>>]_vars

\* White space alone in the text area, with a control and its URL in place.
C12_Witness ==
    /\ lastEvent = "convert-empty"
    /\ base64Input # <<>>
    /\ filenameInput # <<>>
    /\ Len(downloadContainer) = 1
    /\ liveUrls = {downloadContainer[1].blobUrl}
    /\ statusMessage.textContent = Msg("Please provide Base64 input.")


\* C13: after a conversion that decoded, the download's name is the trimmed
\* name of the file name field as it is when it ends in ".pdf", that name
\* and ".pdf" when it is not empty and does not, and "converted.pdf" when it
\* is empty; the auto-download anchor and the control carry that name and
\* the URL the conversion created.
C13_OutputFilename ==
    lastEvent = "convert-done"
        => /\ EndsWith(Trim(filenameInput), DotPdf)
                  => last.filename = Trim(filenameInput)
           /\ (Trim(filenameInput) # <<>>
                 /\ ~EndsWith(Trim(filenameInput), DotPdf))
                  => last.filename = Trim(filenameInput) \o DotPdf
           /\ Trim(filenameInput) = <<>> => last.filename = ConvertedPdf
           /\ last.anchor.download = last.filename
           /\ last.anchor.href = last.url
           /\ Len(downloadContainer) = 1
           /\ downloadContainer[1].download = last.filename
           /\ downloadContainer[1].href = last.url
           /\ last.url > 0

\* A name that ends in ".pdf" once the white space around it is off, with
\* a second ".pdf" inside it.
C13_Witness ==
    /\ lastEvent = "convert-done"
    /\ Trim(filenameInput) # filenameInput
    /\ EndsWith(Trim(filenameInput), DotPdf)
    /\ Len(Trim(filenameInput)) > 2 * Len(DotPdf)
    /\ last.anchor.download = Trim(filenameInput)
    /\ downloadContainer[1].download = Trim(filenameInput)
    /\ downloadContainer[1].href = last.anchor.href


\* C14: the file handler whose read fails sets the read-error status in the
\* error style and writes neither the text area nor the file name field,
\* at the selection and at the failure; it leaves the container and the
\* URLs as they are at the failure, and gives up its place among the reads
\* awaited, so that the handlers run on as before.
C14_ReadFailureKeepsFields ==
    /\ [][lastEvent' \in {"select", "read-fail"}
             => UNCHANGED <<base64Input, filenameInput>>]_vars
    /\ [][lastEvent' = "read-fail"
             => /\ statusMessage'.textContent = Msg("Error reading file.")
                /\ statusMessage'.className = <<"status-message", "error">>
                /\ Len(reads') = Len(reads) - 1
                /\ UNCHANGED <<downloadContainer, liveUrls, urlCount>>]_vars

\* A conversion that decoded right after a failed read, on the text and
\* under the name typed before the file was selected.
C14_Witness ==
    /\ lastEvent = "convert-done"
    /\ last.after = "read-fail"
    /\ latest.state = "failed"
    /\ reads = <<>>
    /\ last.rawInput = <<"Q", "U", "J", "D">>
    /\ last.filename = <<"b">> \o DotPdf
    /\ filenameInput = <<"b">>


\* C15: for input that parses as JSON and has no recognized key whose value
\* is a string, the text extracted is the whole trimmed input, and the
\* regular expression that looks for a block is not run.
C15_JsonKeepsWholeInput ==
    (Extracted /\ JSONParse(last.rawInput).ok /\ KeysOfStrings(last.rawInput) = {})
        => /\ last.base64String = last.rawInput
           /\ last.via \in {"whole", "clean"}

\* A JSON document with no recognized key that holds a block the regular
\* expression would match.
C15_Witness ==
    /\ Extracted
    /\ JSONParse(last.rawInput).ok
    /\ KeysOfStrings(last.rawInput) = {}
    /\ Blocks(last.rawInput) # {}
    /\ last.via = "whole"
    /\ last.base64String = last.rawInput


\* The text the file handler writes into the text area for a file: lines 52
\* and 53 for a text file, lines 57 to 59 for any other.
ContentOf(file) ==
    IF IsTextName(ToLower(file.name)) THEN Trim(TextOf(file.bytes))
    ELSE arrayBufferToBase64(file.bytes)

\* C16 as claimed: when no read is awaited any more, a read delivered its
\* file last and the read of the file selected last delivered too, the text
\* area holds the content of the file selected last.
C16_LatestSelectionWins ==
    (reads = <<>> /\ lastEvent = "read-done" /\ latest.state = "done")
        => base64Input = ContentOf(latest.file)

\* C17 as claimed: with no timer of the copy button pending, the button
\* carries its original label.
C17_LabelRestored ==
    timers = <<>> => copyBtn.textContent = OriginalLabel

====
